---- MODULE Spec2Model ----
(***************************************************************************)
(* Model of the Horst bytecode virtual machine (src/src/vm): the operand   *)
(* stack, the call-frame stack, the globals table and the dispatch loop    *)
(* of VM::run, one action per instruction.                                 *)
(***************************************************************************)
EXTENDS Integers, Sequences, FiniteSets, TLC

VARIABLES frames, stack, globals, sink, pc, err, overflow_checks, global_count

vars ==
    <<frames, stack, globals, sink, pc, err, overflow_checks, global_count>>

(***************************************************************************)
(* Bounds of the model.                                                    *)
(***************************************************************************)
\* longest free tail of an operator program
MaxTail == 1
\* longest function body of a call program
MaxBody == 3
\* longest jump program
MaxJumpLen == 3
\* longest globals program
MaxVarLen == 3
\* largest arity of a callee
MaxArity == 2
\* largest global_count handed to VM::new
MaxGlobals == 1
\* the operand stack is not explored beyond this height
MaxStack == 5

(***************************************************************************)
(* f64.  A number is a pair <<p, q>>: the rational p/q in lowest terms     *)
(* with q > 0, or one of the special values below.  The model's inputs     *)
(* are small integers, whose sums, products and dyadic quotients f64       *)
(* represents exactly.                                                     *)
(***************************************************************************)
NaN == <<0, 0>>
Inf == <<1, 0>>
NegInf == <<-1, 0>>
PosZero == <<0, 1>>
NegZero == <<0, -1>>

F(i) == <<i, 1>>

Abs(i) == IF i < 0 THEN -i ELSE i

RECURSIVE Gcd(_, _)
Gcd(a, b) == IF b = 0 THEN a ELSE Gcd(b, a % b)

IsNaN(x) == x = NaN
IsInf(x) == x[2] = 0 /\ x[1] # 0
IsZero(x) == x[1] = 0 /\ x[2] # 0
IsNeg(x) == x[1] < 0 \/ (x[1] = 0 /\ x[2] < 0)

\* the f64 of the non-zero rational p/q, q # 0
Ratio(p, q) ==
    LET g == Gcd(Abs(p), Abs(q))
        sgn == IF (p < 0) = (q < 0) THEN 1 ELSE -1
    IN <<sgn * (Abs(p) \div g), Abs(q) \div g>>

SignedZero(neg) == IF neg THEN NegZero ELSE PosZero
SignedInf(neg) == IF neg THEN NegInf ELSE Inf

\* numerator and denominator of a finite value
Num(x) == x[1]
Den(x) == Abs(x[2])

f64_neg(x) ==
    IF IsNaN(x) THEN NaN
    ELSE IF IsInf(x) THEN SignedInf(~IsNeg(x))
    ELSE IF IsZero(x) THEN SignedZero(~IsNeg(x))
    ELSE <<-x[1], x[2]>>

f64_add(a, b) ==
    IF IsNaN(a) \/ IsNaN(b) THEN NaN
    ELSE IF IsInf(a) /\ IsInf(b) THEN (IF a = b THEN a ELSE NaN)
    ELSE IF IsInf(a) THEN a
    ELSE IF IsInf(b) THEN b
    ELSE IF IsZero(a) /\ IsZero(b) THEN SignedZero(IsNeg(a) /\ IsNeg(b))
    ELSE LET p == Num(a) * Den(b) + Num(b) * Den(a)
         IN IF p = 0 THEN PosZero ELSE Ratio(p, Den(a) * Den(b))

f64_sub(a, b) == f64_add(a, f64_neg(b))

f64_mul(a, b) ==
    LET neg == IsNeg(a) # IsNeg(b)
    IN IF IsNaN(a) \/ IsNaN(b) THEN NaN
       ELSE IF (IsInf(a) /\ IsZero(b)) \/ (IsZero(a) /\ IsInf(b)) THEN NaN
       ELSE IF IsInf(a) \/ IsInf(b) THEN SignedInf(neg)
       ELSE IF IsZero(a) \/ IsZero(b) THEN SignedZero(neg)
       ELSE Ratio(Num(a) * Num(b), Den(a) * Den(b))

f64_div(a, b) ==
    LET neg == IsNeg(a) # IsNeg(b)
    IN IF IsNaN(a) \/ IsNaN(b) THEN NaN
       ELSE IF (IsInf(a) /\ IsInf(b)) \/ (IsZero(a) /\ IsZero(b)) THEN NaN
       ELSE IF IsInf(a) \/ IsZero(b) THEN SignedInf(neg)
       ELSE IF IsInf(b) \/ IsZero(a) THEN SignedZero(neg)
       ELSE Ratio(Num(a) * Den(b), Den(a) * Num(b))

\* a - b * trunc(a / b), with the sign of the dividend
f64_rem(a, b) ==
    IF IsNaN(a) \/ IsNaN(b) \/ IsInf(a) \/ IsZero(b) THEN NaN
    ELSE IF IsInf(b) \/ IsZero(a) THEN a
    ELSE LET n == Abs(Num(a)) * Den(b)
             d == Abs(Num(b)) * Den(a)
             r == n % d
         IN IF r = 0 THEN SignedZero(IsNeg(a))
            ELSE Ratio(IF IsNeg(a) THEN -r ELSE r, Den(a) * Den(b))

f64_lt(a, b) ==
    IF IsNaN(a) \/ IsNaN(b) THEN FALSE
    ELSE IF a = Inf \/ b = NegInf THEN FALSE
    ELSE IF a = NegInf \/ b = Inf THEN TRUE
    ELSE Num(a) * Den(b) < Num(b) * Den(a)

f64_eq(a, b) ==
    IF IsNaN(a) \/ IsNaN(b) THEN FALSE
    ELSE IF IsZero(a) /\ IsZero(b) THEN TRUE
    ELSE a = b

f64_gt(a, b) == f64_lt(b, a)
f64_le(a, b) == f64_lt(a, b) \/ f64_eq(a, b)
f64_ge(a, b) == f64_le(b, a)


(***************************************************************************)
(* Value (value.rs), Instruction (instruction.rs), Program (program.rs),   *)
(* CallFrame (frame.rs).                                                   *)
(***************************************************************************)
Number(n) == [tag |-> "Number", n |-> n]
Boolean(b) == [tag |-> "Boolean", b |-> b]
String(s) == [tag |-> "String", s |-> s]
Function(f) == [tag |-> "Function", f |-> f]
Null == [tag |-> "Null"]

\* a nullary instruction, and one that carries an operand
Ins(op) == [op |-> op]
InsArg(op, arg) == [op |-> op, arg |-> arg]

Program(instructions, constants) ==
    [instructions |-> instructions, constants |-> constants]

Fn(prog, arity) == [program |-> prog, arity |-> arity]

CallFrame(function, ip, base) == [function |-> function, ip |-> ip, base |-> base]

\* is_falsey with Null falsey
is_falsey_null(v) ==
    IF v.tag = "Null" THEN TRUE
    ELSE IF v.tag = "Boolean" THEN ~v.b
    ELSE TRUE

is_falsey(v) ==
    IF v.tag = "Null" THEN FALSE
    ELSE IF v.tag = "Boolean" THEN ~v.b
    ELSE TRUE

\* #[derive(PartialEq)] on Value, Function and Program
RECURSIVE value_eq(_, _)
value_eq(x, y) ==
    IF x.tag # y.tag THEN FALSE
    ELSE IF x.tag = "Number" THEN f64_eq(x.n, y.n)
    ELSE IF x.tag = "Boolean" THEN x.b = y.b
    ELSE IF x.tag = "String" THEN x.s = y.s
    ELSE IF x.tag = "Function" THEN
        /\ x.f.program.instructions = y.f.program.instructions
        /\ Len(x.f.program.constants) = Len(y.f.program.constants)
        /\ \A i \in 1..Len(x.f.program.constants) :
              value_eq(x.f.program.constants[i], y.f.program.constants[i])
        /\ x.f.arity = y.f.arity
    ELSE TRUE

\* the decimal digits of the fraction r/d, 0 <= r < d, at most k of them
RECURSIVE FracDigits(_, _, _)
FracDigits(r, d, k) ==
    IF r = 0 \/ k = 0 THEN ""
    ELSE ToString((10 * r) \div d) \o FracDigits((10 * r) % d, d, k - 1)

\* Display for f64
fmt_f64(x) ==
    IF IsNaN(x) THEN "NaN"
    ELSE IF IsInf(x) THEN (IF IsNeg(x) THEN "-inf" ELSE "inf")
    ELSE LET whole == Abs(Num(x)) \div Den(x)
             r == Abs(Num(x)) % Den(x)
             sign == IF IsNeg(x) THEN "-" ELSE ""
         IN IF r = 0 THEN sign \o ToString(whole)
            ELSE sign \o ToString(whole) \o "." \o FracDigits(r, Den(x), 16)

\* Display for Value
fmt(v) ==
    IF v.tag = "Number" THEN fmt_f64(v.n)
    ELSE IF v.tag = "Boolean" THEN (IF v.b THEN "true" ELSE "false")
    ELSE IF v.tag = "String" THEN v.s
    ELSE IF v.tag = "Function" THEN "function"
    ELSE "null"

(***************************************************************************)
(* The VM as a record, threaded through the handlers: a handler maps the   *)
(* VM before it to the VM after it.  A panic sets err and ends the         *)
(* handler with what it had changed until then.                            *)
(***************************************************************************)
None == [some |-> FALSE]
Some(v) == [some |-> TRUE, value |-> v]

Vm == [frames |-> frames, stack |-> stack, globals |-> globals,
       sink |-> sink, err |-> err]

panic(s, msg) == [s EXCEPT !.err = msg]

\* run f on s unless s has panicked
Then(s, f(_)) == IF s.err # "" THEN s ELSE f(s)

Last(q) == q[Len(q)]
Front(q) == SubSeq(q, 1, Len(q) - 1)

push(s, value) == [s EXCEPT !.stack = Append(@, value)]

\* pop: the VM after it; the value it returns is Last of the stack before
pop(s) ==
    IF s.stack = <<>> THEN panic(s, "Stack empty!")
    ELSE [s EXCEPT !.stack = Front(@)]

\* frame and frame_mut: WithFrame runs f when there is a frame to hand out
frame(s) == Last(s.frames)

WithFrame(s, f(_)) ==
    IF s.frames = <<>> THEN panic(s, "Call stack empty!") ELSE f(s)

program(s) == frame(s).function.program

current_instruction(s) == program(s).instructions[frame(s).ip + 1]

set_ip(s, pos) ==
    WithFrame(s, LAMBDA t : [t EXCEPT !.frames[Len(t.frames)].ip = pos])


(***************************************************************************)
(* The handlers of VM (mod.rs).                                            *)
(***************************************************************************)
Numeric(type, op, a, b) ==
    IF type = "Number" THEN
        Number(CASE op = "+" -> f64_add(a, b)
                 [] op = "-" -> f64_sub(a, b)
                 [] op = "*" -> f64_mul(a, b)
                 [] op = "/" -> f64_div(a, b)
                 [] op = "%" -> f64_rem(a, b))
    ELSE
        Boolean(CASE op = ">" -> f64_gt(a, b)
                  [] op = "<" -> f64_lt(a, b)
                  [] op = ">=" -> f64_ge(a, b)
                  [] op = "<=" -> f64_le(a, b))

\* binary_op! with the operands bound the other way round
binary_op_swapped(s, type, op) ==
    Then(pop(s), LAMBDA s1 :
      Then(pop(s1), LAMBDA s2 :
        LET a == Last(s.stack)
            b == Last(s1.stack)
        IN IF a.tag = "Number" /\ b.tag = "Number"
           THEN push(s2, Numeric(type, op, a.n, b.n))
           ELSE panic(s2, "explicit panic")))

\* binary_op!: b is popped first, then a
binary_op(s, type, op) ==
    Then(pop(s), LAMBDA s1 :
      Then(pop(s1), LAMBDA s2 :
        LET b == Last(s.stack)
            a == Last(s1.stack)
        IN IF a.tag = "Number" /\ b.tag = "Number"
           THEN push(s2, Numeric(type, op, a.n, b.n))
           ELSE panic(s2, "explicit panic")))

\* jump_if_false that tests the value without popping it
jump_if_false_peek(s, pos) ==
    IF s.stack = <<>> THEN panic(s, "Stack empty!")
    ELSE IF is_falsey(Last(s.stack)) THEN set_ip(pop(s), pos) ELSE s

jump_if_false(s, pos) ==
    Then(pop(s), LAMBDA s1 :
      IF is_falsey(Last(s.stack)) THEN set_ip(s1, pos) ELSE s1)

\* globals[index]: the bounds check of the Vec
GlobalInRange(s, index) == index < Len(s.globals)

\* get_global that moves the value out of the slot
get_global_takes(s, index) ==
    IF ~GlobalInRange(s, index) THEN panic(s, "index out of bounds")
    ELSE IF s.globals[index + 1].some
    THEN [push(s, s.globals[index + 1].value)
             EXCEPT !.globals[index + 1] = None]
    ELSE panic(s, "Cannot get undefined variable")

get_global(s, index) ==
    IF ~GlobalInRange(s, index) THEN panic(s, "index out of bounds")
    ELSE IF s.globals[index + 1].some THEN push(s, s.globals[index + 1].value)
    ELSE panic(s, "Cannot get undefined variable")

\* define_global that leaves a slot that is already defined as it is
define_global_once(s, index) ==
    Then(pop(s), LAMBDA s1 :
      IF ~GlobalInRange(s1, index) THEN panic(s1, "index out of bounds")
      ELSE IF s1.globals[index + 1].some THEN s1
      ELSE [s1 EXCEPT !.globals[index + 1] = Some(Last(s.stack))])

\* the value is popped before the slot is indexed
define_global(s, index) ==
    Then(pop(s), LAMBDA s1 :
      IF ~GlobalInRange(s1, index) THEN panic(s1, "index out of bounds")
      ELSE [s1 EXCEPT !.globals[index + 1] = Some(Last(s.stack))])

\* set_global that pops the value before it looks at the slot
set_global_pop_first(s, index) ==
    Then(pop(s), LAMBDA s1 :
      IF ~GlobalInRange(s1, index) THEN panic(s1, "index out of bounds")
      ELSE IF s1.globals[index + 1].some THEN
          [s1 EXCEPT !.globals[index + 1] = Some(Last(s.stack))]
      ELSE panic(s1, "Cannot set undefined variable"))

set_global(s, index) ==
    IF ~GlobalInRange(s, index) THEN panic(s, "index out of bounds")
    ELSE IF s.globals[index + 1].some THEN
        Then(pop(s), LAMBDA s1 :
          [s1 EXCEPT !.globals[index + 1] = Some(Last(s.stack))])
    ELSE panic(s, "Cannot set undefined variable")

\* pop n times
RECURSIVE PopN(_, _)
PopN(s, n) == IF n = 0 \/ s.err # "" THEN s ELSE PopN(pop(s), n - 1)

\* fn_return that pops the frame before it reads the arity
fn_return_frame_first(s) ==
    Then(pop(s), LAMBDA s1 :
      LET s2 == [s1 EXCEPT !.frames = Front(@)] IN
      WithFrame(s2, LAMBDA s3 :
        Then(PopN(s3, frame(s3).function.arity), LAMBDA s4 :
          push(s4, Last(s.stack)))))

\* fn_return that leaves the frame
fn_return_keeps_frame(s) ==
    Then(pop(s), LAMBDA s1 :
      WithFrame(s1, LAMBDA s2 :
        Then(PopN(s2, frame(s2).function.arity), LAMBDA s3 :
          push(s3, Last(s.stack)))))

\* fn_return that leaves the arguments on the stack
fn_return_leaves_arguments(s) ==
    Then(pop(s), LAMBDA s1 :
      WithFrame(s1, LAMBDA s2 :
        [push(s2, Last(s.stack)) EXCEPT !.frames = Front(@)]))

fn_return(s) ==
    Then(pop(s), LAMBDA s1 :
      WithFrame(s1, LAMBDA s2 :
        Then(PopN(s2, frame(s2).function.arity), LAMBDA s3 :
          [push(s3, Last(s.stack)) EXCEPT !.frames = Front(@)])))

\* call that computes the base before it pops the callee
call_base_before_pop(s) ==
    Then(pop(s), LAMBDA s1 :
      LET callee == Last(s.stack) IN
      IF callee.tag = "Function" THEN
          LET arity == callee.f.arity IN
          IF Len(s.stack) < arity /\ overflow_checks
          THEN panic(s1, "attempt to subtract with overflow")
          ELSE [s1 EXCEPT !.frames =
                   Append(@, CallFrame(callee.f, 0, Len(s.stack) - arity))]
      ELSE panic(s1, "Cannot call value other than function!"))

\* call that takes the arguments off the stack
call_takes_arguments(s) ==
    Then(pop(s), LAMBDA s1 :
      LET callee == Last(s.stack) IN
      IF callee.tag = "Function" THEN
          LET arity == callee.f.arity IN
          IF Len(s1.stack) < arity /\ overflow_checks
          THEN panic(s1, "attempt to subtract with overflow")
          ELSE [s1 EXCEPT !.frames =
                   Append(@, CallFrame(callee.f, 0, Len(s1.stack) - arity)),
                          !.stack = SubSeq(@, 1, Len(@) - arity)]
      ELSE panic(s1, "Cannot call value other than function!"))

\* stack.len() - arity is a usize subtraction: below zero it panics in a
\* build with overflow checks and wraps in a build without.  A base below
\* zero stands for that base + 2^64.
call(s) ==
    Then(pop(s), LAMBDA s1 :
      LET callee == Last(s.stack) IN
      IF callee.tag = "Function" THEN
          LET arity == callee.f.arity IN
          IF Len(s1.stack) < arity /\ overflow_checks
          THEN panic(s1, "attempt to subtract with overflow")
          ELSE [s1 EXCEPT !.frames =
                   Append(@, CallFrame(callee.f, 0, Len(s1.stack) - arity))]
      ELSE panic(s1, "Cannot call value other than function!"))

\* offset + base as a usize; a wrapped base wraps back when the sum
\* passes 2^64, and is out of every Vec's range when it does not
local_index(s, offset) == offset + frame(s).base

\* set_local that indexes the slot before it pops the value
set_local_index_first(s, offset) ==
    WithFrame(s, LAMBDA s0 :
      LET index == local_index(s0, offset) IN
      IF index < 0 \/ index >= Len(s0.stack)
      THEN panic(s0, "index out of bounds")
      ELSE Then(pop([s0 EXCEPT !.stack[index + 1] = Last(s.stack)]),
                LAMBDA s1 : s1))

\* self.stack[index] = self.pop(): the value is popped, then the slot indexed
set_local(s, offset) ==
    WithFrame(s, LAMBDA s0 :
      LET index == local_index(s0, offset) IN
      Then(pop(s0), LAMBDA s1 :
        IF index < 0 \/ index >= Len(s1.stack)
        THEN panic(s1, "index out of bounds")
        ELSE [s1 EXCEPT !.stack[index + 1] = Last(s.stack)]))

get_local(s, offset) ==
    WithFrame(s, LAMBDA s0 :
      LET index == local_index(s0, offset) IN
      IF index < 0 \/ index >= Len(s0.stack)
      THEN panic(s0, "index out of bounds")
      ELSE push(s0, s0.stack[index + 1]))

op_negate(s) ==
    Then(pop(s), LAMBDA s1 :
      LET v == Last(s.stack) IN
      IF v.tag = "Number" THEN push(s1, Number(f64_neg(v.n)))
      ELSE panic(s1, "Cannot negate value other than number!"))

op_not(s) ==
    Then(pop(s), LAMBDA s1 : push(s1, Boolean(is_falsey(Last(s.stack)))))

op_equal(s) ==
    Then(pop(s), LAMBDA s1 :
      Then(pop(s1), LAMBDA s2 :
        push(s2, Boolean(value_eq(Last(s.stack), Last(s1.stack))))))

\* op_not_equal that tells values apart only within a variant
op_not_equal_within_variant(s) ==
    Then(pop(s), LAMBDA s1 :
      Then(pop(s1), LAMBDA s2 :
        LET b == Last(s.stack)
            a == Last(s1.stack)
        IN push(s2, Boolean(a.tag = b.tag /\ ~value_eq(a, b)))))

op_not_equal(s) ==
    Then(pop(s), LAMBDA s1 :
      Then(pop(s1), LAMBDA s2 :
        push(s2, Boolean(~value_eq(Last(s.stack), Last(s1.stack))))))

\* push_constant that reads the pool of the program VM::new was given
push_constant_main(s, index) ==
    WithFrame(s, LAMBDA s0 :
      LET pool == s0.frames[1].function.program.constants IN
      IF index >= Len(pool)
      THEN panic(s0, "index out of bounds")
      ELSE push(s0, pool[index + 1]))

push_constant(s, index) ==
    WithFrame(s, LAMBDA s0 :
      IF index >= Len(program(s0).constants)
      THEN panic(s0, "index out of bounds")
      ELSE push(s0, program(s0).constants[index + 1]))

\* a print that writes the top value and leaves it on the stack
print_peek(s) ==
    IF s.stack = <<>> THEN panic(s, "Stack empty!")
    ELSE [s EXCEPT !.sink = Append(@, fmt(Last(s.stack)) \o "\n")]

\* println!("{}", self.pop())
print(s) ==
    Then(pop(s), LAMBDA s1 :
      [s1 EXCEPT !.sink = Append(@, fmt(Last(s.stack)) \o "\n")])


(***************************************************************************)
(* VM::new and the dispatch loop of VM::run.                               *)
(***************************************************************************)
\* a VM whose globals table has one slot more than asked for
new_extra_slot(prog, count) ==
    [frames |-> <<CallFrame(Fn(prog, 0), 0, 0)>>,
     stack |-> <<>>,
     globals |-> [i \in 1..(count + 1) |-> None],
     sink |-> <<>>,
     err |-> ""]

new(prog, count) ==
    [frames |-> <<CallFrame(Fn(prog, 0), 0, 0)>>,
     stack |-> <<>>,
     globals |-> [i \in 1..count |-> None],
     sink |-> <<>>,
     err |-> ""]

\* the condition of the while loop
LoopCond ==
    frames # <<>> /\ frame(Vm).ip < Len(program(Vm).instructions)

\* the loop body is entered and the instruction fetched is an `op`
Fetch(op) ==
    /\ pc = "loop"
    /\ LoopCond
    /\ Len(stack) <= MaxStack
    /\ current_instruction(Vm).op = op

\* the operand of the instruction fetched
Operand == current_instruction(Vm).arg

\* a loop body that does not advance the ip
Advanced_stays == Vm

\* self.frame_mut().ip += 1
Advanced == [Vm EXCEPT !.frames[Len(frames)].ip = @ + 1]

\* the VM the handler leaves behind; a panic ends run
Commit(s) ==
    /\ frames' = s.frames
    /\ stack' = s.stack
    /\ globals' = s.globals
    /\ sink' = s.sink
    /\ err' = s.err
    /\ pc' = IF s.err = "" THEN "loop" ELSE "panic"
    /\ UNCHANGED <<overflow_checks, global_count>>

Add == Fetch("Add") /\ Commit(binary_op(Advanced, "Number", "+"))
Subtract == Fetch("Subtract") /\ Commit(binary_op(Advanced, "Number", "-"))
Multiply == Fetch("Multiply") /\ Commit(binary_op(Advanced, "Number", "*"))
Divide == Fetch("Divide") /\ Commit(binary_op(Advanced, "Number", "/"))
Modulo == Fetch("Modulo") /\ Commit(binary_op(Advanced, "Number", "%"))
Equal == Fetch("Equal") /\ Commit(op_equal(Advanced))
NotEqual == Fetch("NotEqual") /\ Commit(op_not_equal(Advanced))
Greater == Fetch("Greater") /\ Commit(binary_op(Advanced, "Boolean", ">"))
Less == Fetch("Less") /\ Commit(binary_op(Advanced, "Boolean", "<"))
GreaterEqual == Fetch("GreaterEqual") /\ Commit(binary_op(Advanced, "Boolean", ">="))
LessEqual == Fetch("LessEqual") /\ Commit(binary_op(Advanced, "Boolean", "<="))
Not == Fetch("Not") /\ Commit(op_not(Advanced))
Negate == Fetch("Negate") /\ Commit(op_negate(Advanced))
SetLocal == Fetch("SetLocal") /\ Commit(set_local(Advanced, Operand))
GetLocal == Fetch("GetLocal") /\ Commit(get_local(Advanced, Operand))
DefineGlobal == Fetch("DefineGlobal") /\ Commit(define_global(Advanced, Operand))
SetGlobal == Fetch("SetGlobal") /\ Commit(set_global(Advanced, Operand))
GetGlobal == Fetch("GetGlobal") /\ Commit(get_global(Advanced, Operand))
Return == Fetch("Return") /\ Commit(fn_return(Advanced))
Call == Fetch("Call") /\ Commit(call(Advanced))
\* a Jump whose operand is relative to the instruction after it
Jump_relative ==
    Fetch("Jump") /\ Commit(set_ip(Advanced, frame(Advanced).ip + Operand))

Jump == Fetch("Jump") /\ Commit(set_ip(Advanced, Operand))
JumpIfFalse == Fetch("JumpIfFalse") /\ Commit(jump_if_false(Advanced, Operand))
Constant == Fetch("Constant") /\ Commit(push_constant(Advanced, Operand))
Pop == Fetch("Pop") /\ Commit(pop(Advanced))
PrintValue == Fetch("Print") /\ Commit(print(Advanced))

\* a loop exit that pops the frame of a callee that ran off its end
Halt_pops_callee ==
    /\ pc = "loop"
    /\ ~LoopCond
    /\ IF Len(frames) > 1
       THEN frames' = Front(frames) /\ pc' = "loop"
       ELSE frames' = frames /\ pc' = "done"
    /\ UNCHANGED <<stack, globals, sink, err, overflow_checks, global_count>>

\* the loop condition is false: run returns
Halt ==
    /\ pc = "loop"
    /\ ~LoopCond
    /\ pc' = "done"
    /\ UNCHANGED <<frames, stack, globals, sink, err, overflow_checks,
                   global_count>>

(***************************************************************************)
(* The programs run: four families, each a fixed frame around every        *)
(* instruction sequence over an alphabet up to a bounded length.           *)
(***************************************************************************)
SeqsUpTo(S, n) == UNION {[1..k -> S] : k \in 0..n}

Nullary ==
    {"Add", "Subtract", "Multiply", "Divide", "Modulo", "Equal", "NotEqual",
     "Greater", "Less", "GreaterEqual", "LessEqual", "Not", "Negate",
     "Return", "Call", "Pop", "Print"}

\* fn(x) { return x }
Identity ==
    Fn(Program(<<InsArg("GetLocal", 0), Ins("Return")>>, <<>>), 1)

\* a function of two parameters that runs off its end
Second ==
    Fn(Program(<<InsArg("GetLocal", 1)>>, <<>>), 2)

Operands ==
    {Number(F(1)), Number(F(2)), Number(NaN), Boolean(TRUE), Boolean(FALSE),
     Null,
     String("a"), Function(Identity), Function(Second)}

\* [Constant(0), Constant(1), op, ...tail] over constants [a, b], the shape
\* of the unit tests of mod.rs
OperatorOps ==
    {Ins(op) : op \in Nullary}
    \cup {InsArg(op, i) : op \in {"GetLocal", "SetLocal"}, i \in 0..2}
    \cup {InsArg("JumpIfFalse", a) : a \in 3..5}
    \cup {InsArg("Constant", 2)}

TailOps == {Ins(op) : op \in {"Not", "Negate", "Pop", "Print"}}

OperatorPrograms ==
    {Program(<<InsArg("Constant", 0), InsArg("Constant", 1), op>> \o tail,
             <<a, b>>) :
        a \in Operands, b \in Operands, op \in OperatorOps,
        tail \in SeqsUpTo(TailOps, MaxTail)}

\* callees without parameters, one that returns and one that runs off its end
Returns ==
    Fn(Program(<<InsArg("Constant", 0), Ins("Return"), Ins("Pop")>>,
               <<Number(F(4))>>), 0)

RunsOff ==
    Fn(Program(<<InsArg("Constant", 0)>>, <<Number(F(5))>>), 0)

BodyOps ==
    {InsArg("Constant", i) : i \in 0..2}
    \cup {Ins("Pop"), Ins("Return"), Ins("Call"),
          InsArg("GetLocal", 0), InsArg("SetLocal", 0),
          InsArg("DefineGlobal", 0), InsArg("GetGlobal", 0)}

Callees ==
    {Fn(Program(body, <<Number(F(3)), Function(Returns), Function(RunsOff)>>),
        arity) :
        body \in SeqsUpTo(BodyOps, MaxBody), arity \in 0..MaxArity}

\* callees that begin with a jump
JumpCallees ==
    {Fn(Program(<<InsArg("Jump", a), InsArg("Constant", 0), Ins("Return")>>,
                <<Number(F(3))>>), 0) :
        a \in 0..(MaxJumpLen + 1)}

\* one value, then the arguments, the callee and Call, then one more push
CallPrograms ==
    {Program(<<InsArg("Constant", 0)>>
             \o [i \in 1..f.arity |-> InsArg("Constant", 1)]
             \o <<InsArg("Constant", 2), Ins("Call"), InsArg("Constant", 0)>>,
             <<Number(F(1)), Number(F(2)), Function(f)>>) :
        f \in Callees \cup JumpCallees}

JumpOps ==
    {InsArg("Constant", i) : i \in 0..1}
    \cup {InsArg(op, a) : op \in {"Jump", "JumpIfFalse"}, a \in 0..(MaxJumpLen + 1)}

JumpPrograms ==
    {Program(code, <<Boolean(TRUE), Boolean(FALSE)>>) :
        code \in SeqsUpTo(JumpOps, MaxJumpLen)}

GlobalOps ==
    {InsArg("Constant", i) : i \in 0..1}
    \cup {InsArg(op, i) : op \in {"DefineGlobal", "SetGlobal", "GetGlobal"},
                          i \in 0..MaxGlobals}

GlobalPrograms ==
    {Program(code, <<Number(F(1)), Boolean(TRUE)>>) :
        code \in SeqsUpTo(GlobalOps, MaxVarLen)}

\* the arguments of VM::new
Inputs ==
    (OperatorPrograms \X {0})
    \cup (CallPrograms \X {MaxGlobals})
    \cup (JumpPrograms \X {0})
    \cup (GlobalPrograms \X (0..(MaxGlobals + 1)))

Init ==
    \E in \in Inputs :
        LET s == new(in[1], in[2]) IN
        /\ frames = s.frames
        /\ stack = s.stack
        /\ globals = s.globals
        /\ sink = s.sink
        /\ err = s.err
        /\ pc = "loop"
        /\ overflow_checks \in BOOLEAN
        /\ global_count = in[2]

Next ==
    \/ Add \/ Subtract \/ Multiply \/ Divide \/ Modulo
    \/ Equal \/ NotEqual \/ Greater \/ Less \/ GreaterEqual \/ LessEqual
    \/ Not \/ Negate
    \/ SetLocal \/ GetLocal \/ DefineGlobal \/ SetGlobal \/ GetGlobal
    \/ Return \/ Call
    \/ Jump \/ JumpIfFalse
    \/ Constant \/ Pop \/ PrintValue
    \/ Halt

Spec == Init /\ [][Next]_vars

\* the programs whose runs are followed to their end: every instruction on
\* two operands, and the jump programs
RunOps ==
    OperatorOps
    \cup {InsArg(op, 0) : op \in {"DefineGlobal", "SetGlobal", "GetGlobal"}}

RunPrograms ==
    {Program(<<InsArg("Constant", 0), InsArg("Constant", 1), op>> \o tail,
             <<a, b>>) :
        a \in {Number(F(1)), Boolean(FALSE)},
        b \in {Number(F(1)), Boolean(FALSE)},
        op \in RunOps, tail \in SeqsUpTo(TailOps, MaxTail)}

RunInputs == (RunPrograms \X {1}) \cup (JumpPrograms \X {0})

RunInit ==
    \E in \in RunInputs :
        LET s == new(in[1], in[2]) IN
        /\ frames = s.frames
        /\ stack = s.stack
        /\ globals = s.globals
        /\ sink = s.sink
        /\ err = s.err
        /\ pc = "loop"
        /\ overflow_checks \in BOOLEAN
        /\ global_count = in[2]

\* run is one sequential loop: while it has a step to take, it takes it
FairSpec == RunInit /\ [][Next]_vars /\ WF_vars(Next)


(***************************************************************************)
(* Properties.                                                             *)
(***************************************************************************)
Top == frames[Len(frames)]
Code == Top.function.program.instructions

\* the instruction about to be executed is an `op`
Executes(op) == Fetch(op)

\* no panic in the step taken
StepOk == err' = ""

\* C1: Return in a called function, executed with the return value (and
\* possibly more) above the arguments, leaves the stack one higher than it
\* was before the arguments were pushed (the frame's base), with the
\* returned value on top, whatever the body left on the stack.
C1_ReturnRestoresHeight ==
    [][(/\ Executes("Return")
        /\ Len(frames) > 1
        /\ Top.base >= 0
        /\ Len(stack) >= Top.base + Top.function.arity + 1)
       => (/\ StepOk
           /\ Len(stack') = Top.base + 1
           /\ Last(stack') = Last(stack))]_vars


\* C2: Call with a Function of arity k on top and at least k values below
\* pops the callee and pushes one frame with ip = 0 and base = (height
\* after the pop) - k; the k arguments stay where they are and are locals
\* 0..k-1 of the new frame in push order.  Call with another value on top
\* panics and pushes no frame.
C2_Call ==
    [][(Executes("Call") /\ stack # <<>>) =>
        LET callee == Last(stack) IN
        IF callee.tag = "Function" THEN
            LET k == callee.f.arity IN
            (Len(stack) - 1 >= k) =>
                /\ StepOk
                /\ stack' = Front(stack)
                /\ Len(frames') = Len(frames) + 1
                /\ Top' = CallFrame(callee.f, 0, Len(stack) - 1 - k)
                /\ \A i \in 0..(k - 1) :
                      /\ stack'[Top'.base + i + 1] = stack[Len(stack) - k + i]
                      /\ Last(get_local(Vm', i).stack) = stack[Len(stack) - k + i]
        ELSE
            /\ pc' = "panic"
            /\ err' = "Cannot call value other than function!"
            /\ Len(frames') = Len(frames)]_vars

\* a frame of a callee of two parameters right after its Call, its two
\* arguments on the stack above one older value
C2_Witness ==
    /\ pc = "loop"
    /\ Len(frames) = 2
    /\ Top.ip = 0
    /\ Top.function.arity = 2
    /\ Top.base = 1
    /\ stack = <<Number(F(1)), Number(F(2)), Number(F(2))>>

\* C3: when a called function reaches the end of its instructions without
\* Return, the engine pops its frame and pushes no value.
C3_RunOffPopsFrame ==
    [][(/\ pc = "loop"
        /\ Len(frames) > 1
        /\ Top.ip >= Len(Code))
       => (frames' = Front(frames) /\ stack' = stack)]_vars

\* the top frame's ip is at or past the end of its program
AtEnd == frames # <<>> /\ Top.ip >= Len(Code)

\* C4: when the top frame's ip reaches the end of its program run returns
\* at once, at any depth: the frames and the stack stay as they are, and
\* nothing is executed after run has returned.
C4_HaltAtEnd ==
    [][/\ pc # "done"
       /\ (pc = "loop" /\ AtEnd) =>
             (pc' = "done" /\ UNCHANGED <<frames, stack, globals, sink, err>>)]_vars

\* run has returned with a callee's frame on top of a caller that had
\* instructions left
C4_Witness ==
    /\ pc = "done"
    /\ Len(frames) = 2
    /\ AtEnd
    /\ frames[1].ip < Len(frames[1].function.program.instructions)

\* C5: Return in a called function removes its frame and leaves the lower
\* frames as they are; the caller resumes at the instruction after its
\* Call.  No step changes a frame below the top one, and the ip of every
\* frame below the top one is the address after a Call.
C5_ReturnResumesCaller ==
    [][/\ (Executes("Return") /\ Len(frames) > 1 /\ StepOk) =>
             /\ frames' = Front(frames)
             /\ pc' = "loop"
             /\ Top'.ip >= 1
             /\ Top'.function.program.instructions[Top'.ip].op = "Call"
       /\ \A i \in 1..(Len(frames) - 1) :
             i <= Len(frames') => frames'[i] = frames[i]]_vars

\* run has returned from the bottom frame, whose last instruction but one
\* was a Call: the callee returned and the caller went on
C5_Witness ==
    /\ pc = "done"
    /\ Len(frames) = 1
    /\ Len(Code) >= 2
    /\ Top.ip = Len(Code)
    /\ Code[Len(Code) - 1].op = "Call"
    /\ Len(stack) >= 2

\* C6: while no panic has happened every frame has 0 <= base <= |stack|
\* (stated of the build with overflow checks, where no base has wrapped).
C6_BaseWithinStack ==
    (err = "" /\ overflow_checks) =>
        \A i \in 1..Len(frames) :
            0 <= frames[i].base /\ frames[i].base <= Len(stack)

\* C6, amended: the bottom frame has base 0, and the frame pushed by a Call
\* that had at least arity values below the callee has 0 <= base <= |stack|
\* right after the Call.
C6_BaseAtCall ==
    [][/\ frames' # <<>> => frames'[1].base = 0
       /\ (/\ Executes("Call")
           /\ StepOk
           /\ Len(stack) - 1 >= Last(stack).f.arity)
          => (0 <= Top'.base /\ Top'.base <= Len(stack'))]_vars

\* a callee's frame right after its Call, its base above the bottom of the
\* stack and its one argument above the base
C6_Witness ==
    /\ err = ""
    /\ Len(frames) = 2
    /\ Top.ip = 0
    /\ Top.function.arity = 1
    /\ Top.base = 1
    /\ Len(stack) = 2

\* C7: no panic "Call stack empty!" ever happens.  Return in the bottom
\* frame pops the last frame with the returned value on top of the stack,
\* and with no frame left run returns without another instruction.
C7_NoFrameUnderflow ==
    /\ [](err # "Call stack empty!")
    /\ [][/\ (Executes("Return") /\ Len(frames) = 1 /\ stack # <<>>) =>
                /\ StepOk
                /\ frames' = <<>>
                /\ stack' = stack
          /\ (pc = "loop" /\ frames = <<>>) =>
                (pc' = "done" /\ stack' = stack)]_vars

\* run has returned after the last frame was popped, a value on the stack
C7_Witness ==
    /\ pc = "done"
    /\ err = ""
    /\ frames = <<>>
    /\ stack # <<>>

\* a jump is taken by the instruction about to be executed
JumpTaken ==
    \/ Executes("Jump")
    \/ Executes("JumpIfFalse") /\ stack # <<>> /\ is_falsey(Last(stack))

\* C8: a jump taken to an address that is no instruction address of the
\* current program is a panic.
C8_JumpOutOfRangePanics ==
    [][(JumpTaken /\ Operand >= Len(Code)) => pc' = "panic"]_vars

\* what the claims say of is_falsey
Falsey(v) ==
    CASE v.tag = "Boolean" -> ~v.b
      [] v.tag = "Null" -> FALSE
      [] v.tag \in {"Number", "String", "Function"} -> TRUE

\* C9: JumpIfFalse pops one value, taken or not; the top frame's ip
\* becomes the operand when the value is falsey and the address after
\* the JumpIfFalse when it is not; nothing else changes.
C9_JumpIfFalse ==
    [][(Executes("JumpIfFalse") /\ stack # <<>>) =>
          /\ StepOk
          /\ stack' = Front(stack)
          /\ frames' = [frames EXCEPT ![Len(frames)].ip =
                           IF Falsey(Last(stack)) THEN Operand ELSE Top.ip + 1]
          /\ UNCHANGED <<globals, sink>>]_vars

\* [Constant(1), JumpIfFalse(3), Constant(0)] over [true, false] after the
\* jump: ip 3 with the predicate popped
C9_Witness ==
    /\ pc = "loop"
    /\ Len(frames) = 1
    /\ Code = <<InsArg("Constant", 1), InsArg("JumpIfFalse", 3),
                InsArg("Constant", 0)>>
    /\ Top.ip = 3
    /\ stack = <<>>

\* [Constant(0), Constant(1), Not, Not, ...] after the second Not
AfterNotNot ==
    /\ err = ""
    /\ Len(frames) = 1
    /\ Top.ip = 4
    /\ Len(Code) >= 4
    /\ Code[1] = InsArg("Constant", 0)
    /\ Code[2] = InsArg("Constant", 1)
    /\ Code[3].op = "Not"
    /\ Code[4].op = "Not"

\* C10: is_falsey is !b for Boolean(b), false for Null and true for every
\* Number, String and Function; Not pushes Boolean(is_falsey(v)) in place
\* of v, and Not applied twice to v leaves Boolean(!is_falsey(v)).
C10_Not ==
    /\ [](AfterNotNot =>
            Last(stack) = Boolean(~Falsey(Top.function.program.constants[2])))
    /\ [][(Executes("Not") /\ stack # <<>>) =>
             /\ StepOk
             /\ stack' = Append(Front(stack), Boolean(Falsey(Last(stack))))
             /\ is_falsey(Last(stack)) = Falsey(Last(stack))]_vars

\* Not applied twice to Null has left Boolean(true)
C10_Witness ==
    /\ AfterNotNot
    /\ Top.function.program.constants[2] = Null
    /\ stack = <<Top.function.program.constants[1], Boolean(TRUE)>>

\* the instruction about to be executed names a slot of the globals table
\* that is empty
OnEmptySlot == Operand < Len(globals) /\ ~globals[Operand + 1].some

\* C11: GetGlobal(i) and SetGlobal(i) on an empty slot panic, and at the
\* panic the stack and the globals table are as they were before the
\* instruction, also when the stack is empty.
C11_UndefinedGlobal ==
    [][/\ (Executes("GetGlobal") /\ OnEmptySlot) =>
             /\ pc' = "panic"
             /\ err' = "Cannot get undefined variable"
             /\ UNCHANGED <<stack, globals>>
       /\ (Executes("SetGlobal") /\ OnEmptySlot) =>
             /\ pc' = "panic"
             /\ err' = "Cannot set undefined variable"
             /\ UNCHANGED <<stack, globals>>]_vars

\* SetGlobal has panicked on an empty slot with a value on the stack,
\* which is still there
C11_Witness ==
    /\ pc = "panic"
    /\ err = "Cannot set undefined variable"
    /\ Len(stack) = 1
    /\ Len(globals) = 1

\* the instruction about to be executed names a slot of the globals table
InTable == Operand < Len(globals)

PastTable ==
    /\ \/ Executes("GetGlobal") \/ Executes("SetGlobal")
       \/ Executes("DefineGlobal")
    /\ Operand >= global_count

\* C13: the globals table has global_count slots, all empty, after
\* construction and global_count slots in every reachable state; an
\* instruction that names a slot at or past global_count panics and leaves
\* the table as it is.
C13_GlobalsLength ==
    /\ globals = [i \in 1..global_count |-> None]
    /\ [](Len(globals) = global_count)
    /\ [][PastTable => pc' = "panic" /\ globals' = globals]_vars

\* DefineGlobal(1) has panicked on a table of one slot, which is still one
\* slot
C13_Witness ==
    /\ pc = "panic"
    /\ err = "index out of bounds"
    /\ global_count = 1
    /\ Len(globals) = 1
    /\ Code[frames[Len(frames)].ip] = InsArg("DefineGlobal", 1)

\* the stack slot a local instruction about to be executed addresses, and
\* whether it is a slot of the stack as it stands
LocalSlot == Operand + Top.base
LocalInStack == 0 <= LocalSlot /\ LocalSlot < Len(stack)

\* GetLocal pushes a copy of the slot addressed and leaves the rest alone
GetLocalCopies ==
    (Executes("GetLocal") /\ LocalInStack) =>
        StepOk /\ stack' = Append(stack, stack[LocalSlot + 1])

\* SetLocal has popped the top value into the slot addressed
SetLocalStored ==
    /\ StepOk
    /\ Len(stack') = Len(stack) - 1
    /\ \A j \in 1..Len(stack') :
          stack'[j] = IF j = LocalSlot + 1 THEN Last(stack) ELSE stack[j]

\* C14 as claimed: locals are addressed from the top frame's base; GetLocal
\* on a slot of the stack pushes a copy of it; SetLocal on any slot of the
\* stack as it stands when the instruction starts, the top slot included,
\* pops the top value and stores it there without a panic.
C14_SetLocalAnySlot ==
    [][/\ GetLocalCopies
       /\ (Executes("SetLocal") /\ LocalInStack) => SetLocalStored]_vars

\* C14 as amended: SetLocal stores when the slot addressed lies below the
\* top slot; when it is the top slot itself the value is popped and the
\* instruction panics on the index, the rest of the stack as it was.
C14_SetLocalBelowTop ==
    [][/\ GetLocalCopies
       /\ (Executes("SetLocal") /\ LocalInStack
             /\ LocalSlot < Len(stack) - 1) => SetLocalStored
       /\ (Executes("SetLocal") /\ LocalInStack
             /\ LocalSlot = Len(stack) - 1) =>
             /\ pc' = "panic"
             /\ err' = "index out of bounds"
             /\ stack' = Front(stack)]_vars

\* SetLocal(0) has stored the top value, Number(2), over the Number(1)
\* below it
C14_Witness ==
    /\ pc = "loop"
    /\ Len(frames) = 1
    /\ Top.ip = 3
    /\ Len(Code) >= 3
    /\ Code[3] = InsArg("SetLocal", 0)
    /\ program(Vm).constants = <<Number(F(1)), Number(F(2))>>
    /\ stack = <<Number(F(2))>>

\* the constant pool of the program of the top frame
Pool == Top.function.program.constants

\* C15: Constant(i) pushes a copy of constants[i] of the program of the top
\* frame (the callee's own pool inside a callee, the caller's again after
\* the return): the height goes up by one and nothing else changes but the
\* ip; an index past the pool panics.
C15_Constant ==
    [][Executes("Constant") =>
         IF Operand < Len(Pool)
         THEN /\ StepOk
              /\ stack' = Append(stack, Pool[Operand + 1])
              /\ frames' = [frames EXCEPT ![Len(frames)].ip = @ + 1]
              /\ UNCHANGED <<globals, sink>>
         ELSE pc' = "panic" /\ err' = "index out of bounds"]_vars

\* the callee has pushed its own constant 0, Number(3), and returned it, and
\* the caller has then pushed its constant 0, Number(1)
C15_Witness ==
    /\ pc = "loop"
    /\ Len(frames) = 1
    /\ AtEnd
    /\ Pool[1] = Number(F(1))
    /\ Len(Pool) = 3
    /\ Pool[3].tag = "Function"
    /\ Pool[3].f.program.instructions =
          <<InsArg("Constant", 0), Ins("Return")>>
    /\ stack = <<Number(F(1)), Number(F(3)), Number(F(1))>>

ArithmeticOps == {"Add", "Subtract", "Multiply", "Divide", "Modulo"}
ComparisonOps == {"Greater", "Less", "GreaterEqual", "LessEqual"}

\* a binary instruction is about to be executed on two operands: a is the
\* value pushed first, b the value on top
ExecutesBinary(op) == Executes(op) /\ Len(stack) >= 2
OperandA == stack[Len(stack) - 1]
OperandB == stack[Len(stack)]
BelowOperands == SubSeq(stack, 1, Len(stack) - 2)

\* a positive whole number, as a value
Whole(v) == v.tag = "Number" /\ v.n[2] = 1 /\ v.n[1] > 0

\* the quotient x/y of positive integers in lowest terms
Quotient(x, y) ==
    CHOOSE r \in (1..x) \X (1..y) :
        /\ r[1] * y = x * r[2]
        /\ \A t \in (1..x) \X (1..y) : t[1] * y = x * t[2] => r[1] <= t[1]

\* what arithmetic on the positive integers x and y gives
Arithmetic(op, x, y) ==
    CASE op = "Add" -> <<x + y, 1>>
      [] op = "Subtract" -> <<x - y, 1>>
      [] op = "Multiply" -> <<x * y, 1>>
      [] op = "Divide" -> Quotient(x, y)
      [] op = "Modulo" -> <<x % y, 1>>

Comparison(op, x, y) ==
    CASE op = "Greater" -> x > y
      [] op = "Less" -> x < y
      [] op = "GreaterEqual" -> x >= y
      [] op = "LessEqual" -> x <= y

\* C16: an arithmetic or ordered-comparison instruction pops b, then a, and
\* pushes Number(a op b) or Boolean(a op b), a the left operand; when either
\* value popped is not a Number it panics with both popped and nothing
\* pushed.
C16_BinaryOp ==
    [][\A op \in ArithmeticOps \cup ComparisonOps :
         ExecutesBinary(op) =>
           IF OperandA.tag = "Number" /\ OperandB.tag = "Number"
           THEN /\ StepOk
                /\ Len(stack') = Len(stack) - 1
                /\ Front(stack') = BelowOperands
                /\ Last(stack').tag =
                      IF op \in ArithmeticOps THEN "Number" ELSE "Boolean"
                /\ (Whole(OperandA) /\ Whole(OperandB)) =>
                      LET x == OperandA.n[1]
                          y == OperandB.n[1]
                      IN IF op \in ArithmeticOps
                         THEN Last(stack') = Number(Arithmetic(op, x, y))
                         ELSE Last(stack') = Boolean(Comparison(op, x, y))
           ELSE /\ pc' = "panic"
                /\ stack' = BelowOperands]_vars

\* Subtract on Number(1) below Number(2) has pushed Number(-1)
C16_Witness ==
    /\ pc = "loop"
    /\ Len(frames) = 1
    /\ Top.ip = 3
    /\ Len(Code) >= 3
    /\ Code[3] = Ins("Subtract")
    /\ Pool = <<Number(F(1)), Number(F(2))>>
    /\ stack = <<Number(F(-1))>>

\* IEEE-754 equality of two Numbers' payloads: NaN equals nothing, the two
\* zeros equal each other
SameNumber(x, y) ==
    /\ x # <<0, 0>>
    /\ y # <<0, 0>>
    /\ (x = y \/ (x[1] = 0 /\ y[1] = 0))

\* a and b are of one variant and their payloads are the same, a Number's
\* payload compared as the IEEE-754 float it is
SameValue(a, b) ==
    /\ a.tag = b.tag
    /\ IF a.tag = "Number" THEN SameNumber(a.n, b.n) ELSE a = b

\* C17: on every pair of values a, b on top of the stack Equal and NotEqual
\* pop both and push one Boolean, NotEqual's the complement of Equal's;
\* Equal pushes false when a and b are of different variants and compares
\* the payloads within a variant, with no coercion.
C17_Equality ==
    [][/\ ExecutesBinary("Equal") =>
             /\ StepOk
             /\ stack' = Append(BelowOperands,
                                Boolean(SameValue(OperandA, OperandB)))
       /\ ExecutesBinary("NotEqual") =>
             /\ StepOk
             /\ stack' = Append(BelowOperands,
                                Boolean(~SameValue(OperandA, OperandB)))]_vars

\* NotEqual on Number(1) and Boolean(true), both truthy, has pushed true
C17_Witness ==
    /\ pc = "loop"
    /\ Len(frames) = 1
    /\ Top.ip = 3
    /\ Len(Code) >= 3
    /\ Code[3] = Ins("NotEqual")
    /\ Pool = <<Number(F(1)), Boolean(TRUE)>>
    /\ stack = <<Boolean(TRUE)>>

\* the instruction-set table's change of the stack height
Delta(op) ==
    CASE op \in ArithmeticOps \cup ComparisonOps -> -1
      [] op \in {"Equal", "NotEqual", "SetLocal", "DefineGlobal", "SetGlobal",
                 "Pop", "Print", "JumpIfFalse", "Call"} -> -1
      [] op \in {"Not", "Negate", "Jump"} -> 0
      [] op \in {"GetLocal", "GetGlobal", "Constant"} -> 1
      [] op = "Return" -> -Top.function.arity

Opcodes ==
    ArithmeticOps \cup ComparisonOps
    \cup {"Equal", "NotEqual", "Not", "Negate", "SetLocal", "GetLocal",
          "DefineGlobal", "SetGlobal", "GetGlobal", "Return", "Call", "Jump",
          "JumpIfFalse", "Constant", "Pop", "Print"}

C19_Jump ==
    [][Executes("Jump") =>
         /\ StepOk
         /\ frames' = [frames EXCEPT ![Len(frames)].ip = Operand]
         /\ UNCHANGED <<stack, globals, sink>>
         /\ Operand < Len(Code) =>
               /\ pc' = "loop"
               /\ LoopCond'
               /\ current_instruction(Vm)' = Code[Operand + 1]]_vars

\* a called function has executed its Jump(2) over its Constant(0) and
\* stands at its Return, the caller's frame and the stack as they were
C19_Witness ==
    /\ pc = "loop"
    /\ Len(frames) = 2
    /\ Code = <<InsArg("Jump", 2), InsArg("Constant", 0), Ins("Return")>>
    /\ Top.ip = 2
    /\ frames[1].ip = 3
    /\ stack = <<Number(F(1))>>

\* display forms of some values, as Rust's formatter writes them
Shown ==
    {<<Number(F(1)), "1">>, <<Number(F(-1)), "-1">>, <<Number(<<1, 2>>), "0.5">>,
     <<Number(NaN), "NaN">>, <<Number(PosZero), "0">>,
     <<Boolean(TRUE), "true">>, <<Boolean(FALSE), "false">>,
     <<Null, "null">>, <<String("a"), "a">>,
     <<Function(Identity), "function">>}

\* C20: Print appends one line to the sink, the display form of the value
\* on top of the stack, pops that value and changes nothing else but the
\* ip; no other instruction, nor the exit of the loop, writes to the sink,
\* so the sink holds one line per Print executed, in the order executed.
C20_PrintLines ==
    /\ sink = <<>>
    /\ [][/\ (Executes("Print") /\ stack # <<>>) =>
                /\ StepOk
                /\ sink' = Append(sink, fmt(Last(stack)) \o "\n")
                /\ \A p \in Shown :
                      Last(stack) = p[1] => Last(sink') = p[2] \o "\n"
                /\ stack' = Front(stack)
                /\ frames' = [frames EXCEPT ![Len(frames)].ip = @ + 1]
                /\ globals' = globals
          /\ ~Executes("Print") => sink' = sink]_vars

\* two Prints have written Number(2), which was on top, and then Number(1)
C20_Witness ==
    /\ pc = "loop"
    /\ Len(frames) = 1
    /\ Code = <<InsArg("Constant", 0), InsArg("Constant", 1), Ins("Print"),
                Ins("Print")>>
    /\ Pool = <<Number(F(1)), Number(F(2))>>
    /\ AtEnd
    /\ stack = <<>>
    /\ sink = <<"2\n", "1\n">>

\* C21: a slot of the globals table that holds a value holds a value after
\* every step, whatever the instruction and the frame it runs in, so once
\* defined a slot stays defined for the rest of the run; and a step that
\* changes the table is a DefineGlobal or a SetGlobal.
C21_DefinedStaysDefined ==
    [][/\ \A i \in 1..Len(globals) :
             globals[i].some => i <= Len(globals') /\ globals'[i].some
       /\ globals' # globals =>
             Executes("DefineGlobal") \/ Executes("SetGlobal")]_vars

\* slot 0 of a table of two was defined and then read: it still holds its
\* value and slot 1 is still empty
C21_Witness ==
    /\ pc = "loop"
    /\ Len(frames) = 1
    /\ Code = <<InsArg("Constant", 0), InsArg("DefineGlobal", 0),
                InsArg("GetGlobal", 0)>>
    /\ AtEnd
    /\ globals = <<Some(Number(F(1))), None>>
    /\ stack = <<Number(F(1))>>

\* the program handed to VM::new, which the bottom frame runs
MainCode == frames[1].function.program.instructions

\* the program has no Call, and each of its jumps targets an address
\* greater than its own
ForwardOnly ==
    /\ frames # <<>>
    /\ \A a \in 1..Len(MainCode) :
          /\ MainCode[a].op # "Call"
          /\ MainCode[a].op \in {"Jump", "JumpIfFalse"} =>
                MainCode[a].arg > a - 1

\* run has returned or panicked
Halted == pc \in {"done", "panic"}

\* a Jump to its own address is about to be executed
AtSelfJump == Executes("Jump") /\ Operand = Top.ip

\* C22: on a program without Call whose jumps all go forward run halts,
\* normally or by a panic, and until then every instruction executed leaves
\* the ip of the frame greater than it was (so no address is executed twice
\* and at most len(instructions) instructions are executed); without the
\* restriction run need not halt: a run that comes to a Jump to its own
\* address stays in the loop for ever.
C22_ForwardRunsHalt ==
    /\ ForwardOnly => <>Halted
    /\ [][(ForwardOnly /\ pc = "loop" /\ LoopCond /\ frames' # <<>>) =>
             /\ Len(frames') = 1
             /\ frames'[1].ip > frames[1].ip]_vars
    /\ [](AtSelfJump => [](pc = "loop"))

\* a program of forward jumps has halted: Jump(2) skipped Constant(0), and
\* Constant(1) pushed false
C22_Witness ==
    /\ pc = "done"
    /\ ForwardOnly
    /\ MainCode = <<InsArg("Jump", 2), InsArg("Constant", 0),
                    InsArg("Constant", 1)>>
    /\ Top.ip = 3
    /\ stack = <<Boolean(FALSE)>>

====
